---- MODULE Spec2Model ----
(***************************************************************************)
(* Model of product_import/wizard/product_import.py (model product.import) *)
(* : the import wizard (import_button), its detection hook                 *)
(* (product_file_change), the chunk jobs (_create_update_products) and the *)
(* product / supplierinfo store they reconcile against.                    *)
(*                                                                         *)
(* Dates are day numbers (>= 1); an unset field (Python False / None on a  *)
(* record field) is the number False == 0; an absent barcode is "".        *)
(***************************************************************************)
EXTENDS Integers, Sequences, FiniteSets, TLC

\* ------------------------------------------------------------------ values

\* Python's False as the value of an unset id / date field.
False == 0

\* The fill value zip_longest pads the last tuple with.
None == [none |-> TRUE]

\* CHUNK_SIZE, the default of import_button's chunk_size parameter.
CHUNK_SIZE == 40

\* Bounds of the model.
MaxLines == 2
MaxChunkLines == 5
MaxChunk == 2
MaxAdvance == 1
MaxRaceLines == 3

\* The day the model starts on; dates 1 and 2 lie before it.
StartDay == 3

\* -------------------------------------------------------- reference data

\* Units of measure and currencies the matcher resolves; any other reference
\* makes the matcher raise.
UomTable == [unit |-> 1, kg |-> 2]
CurrencyTable == [EUR |-> 1, USD |-> 2]

\* Partners playing the seller role: reference -> res.partner id.
PartnerTable == [vendorA |-> 1, vendorB |-> 2]

\* Partners that are companies (is_company): reference -> res.partner id.
CompanyPartnerTable == [acme |-> 3, orphan |-> 4]

\* The res.company records.
ResCompany == {[id |-> 1, partner_id |-> 3]}

\* business.document.import._match_uom / _match_currency: the id, or a raise.
match_uom(uom) ==
    IF uom \in DOMAIN UomTable
    THEN [raised |-> FALSE, id |-> UomTable[uom]]
    ELSE [raised |-> TRUE, id |-> False]

match_currency(currency) ==
    IF currency \in DOMAIN CurrencyTable
    THEN [raised |-> FALSE, id |-> CurrencyTable[currency]]
    ELSE [raised |-> TRUE, id |-> False]

\* business.document.import._match_partner: the partner id; on no match it
\* raises when raise_exception (its default) and returns False otherwise.
match_partner(ref, table, raise_exception) ==
    IF ref \in DOMAIN table
    THEN [raised |-> FALSE, id |-> table[ref]]
    ELSE [raised |-> raise_exception, id |-> False]

\* ------------------------------------------------------------ the store

\* product.product records are products[id], product.supplierinfo records are
\* offers[id]; ids are the positions, records are never deleted.

seller_ids_of_any_product(product_id, offs) == [i \in 1..Len(offs) |-> i]

\* product.seller_ids: the ids of the offers of a product, in id order.
seller_ids(product_id, offs) ==
    SelectSeq([i \in 1..Len(offs) |-> i], LAMBDA i : offs[i].product_id = product_id)

search_barcode_none(prods, barcode) == False

search_barcode_active(prods, barcode) ==
    LET hits == {i \in 1..Len(prods) : prods[i].barcode = barcode /\ prods[i].active}
    IN  IF hits = {} THEN False ELSE CHOOSE i \in hits : \A k \in hits : i <= k

\* search([("barcode", "=", barcode)], limit=1) with active_test=False: the
\* first product carrying the barcode, archived or not; False when none.
search_barcode(prods, barcode) ==
    LET hits == {i \in 1..Len(prods) : prods[i].barcode = barcode}
    IN  IF hits = {} THEN False ELSE CHOOSE i \in hits : \A k \in hits : i <= k

\* ------------------------------------------------- _prepare_supplierinfo

skip_sinfo_other_company(s_info, seller_info, today_) ==
    \/ s_info.name # seller_info.name
    \/ s_info.company_id # seller_info.company_id
    \/ (s_info.date_end # False /\ s_info.date_end < today_)

skip_sinfo_any_seller(s_info, seller_info, today_) ==
    \/ s_info.company_id \notin {seller_info.company_id, False}
    \/ (s_info.date_end # False /\ s_info.date_end < today_)

\* Lines 133-138: the offers the loop passes over (continue).
skip_sinfo(s_info, seller_info, today_) ==
    \/ s_info.name # seller_info.name
    \/ s_info.company_id \notin {seller_info.company_id, False}
    \/ (s_info.date_end # False /\ s_info.date_end < today_)

\* Lines 139-146: the field-by-field comparison.
same_sinfo(s_info, seller_info) ==
    /\ s_info.product_code = seller_info.product_code
    /\ s_info.min_qty = seller_info.min_qty
    /\ s_info.price = seller_info.price
    /\ s_info.currency_id = seller_info.currency_id
    /\ s_info.company_id = seller_info.company_id
    /\ s_info.delay = seller_info.delay

terminate_command_today(line_id, today_) ==
    [command |-> 1, line_id |-> line_id, values |-> [date_end |-> today_]]

\* Line 149: the write command (1, id, {"date_end": yesterday}).
terminate_command(line_id, today_) ==
    [command |-> 1, line_id |-> line_id, values |-> [date_end |-> today_ - 1]]

\* Lines 151-152: setdefault("date_start", today) and the create command.
create_command(seller_info, today_) ==
    [command |-> 0, line_id |-> 0,
     values |-> IF seller_info.date_start = False
                THEN [seller_info EXCEPT !.date_start = today_]
                ELSE seller_info]

\* Lines 132-149: the loop over product.seller_ids; acc is (seller_id, result).
RECURSIVE scan_sinfo(_, _, _, _, _)
scan_sinfo(ids, offs, seller_info, today_, acc) ==
    IF ids = <<>> THEN acc
    ELSE LET id == Head(ids)
             s_info == offs[id]
             next == IF skip_sinfo(s_info, seller_info, today_) THEN acc
                     ELSE IF same_sinfo(s_info, seller_info)
                          THEN [acc EXCEPT !.seller_id = id]
                          ELSE [acc EXCEPT !.result =
                                   Append(@, terminate_command(id, today_))]
         IN  scan_sinfo(Tail(ids), offs, seller_info, today_, next)

needs_create_always(seller_id) == TRUE

\* Lines 150-152: whether a create command is appended.
needs_create(seller_id) == seller_id = False

\* _prepare_supplierinfo(seller_info, product): the list of commands.
prepare_supplierinfo(seller_info, product_id, offs, today_) ==
    LET start == [seller_id |-> False, result |-> <<>>]
        acc == IF product_id # False
               THEN scan_sinfo(seller_ids(product_id, offs), offs, seller_info,
                               today_, start)
               ELSE start
    IN  IF needs_create(acc.seller_id)
        THEN Append(acc.result, create_command(seller_info, today_))
        ELSE acc.result

\* ------------------------------------------------------ _prepare_product

\* parsed_product.get(key, default) for the optional keys of a line.
get(parsed_product, key, default) ==
    IF key \in DOMAIN parsed_product THEN parsed_product[key] ELSE default

missing_barcode_never(parsed_product) == FALSE

\* Lines 161-165: the line is refused when its barcode is falsy.
missing_barcode(parsed_product) == parsed_product.barcode = ""

\* Lines 162-164: the message appended for a refused line.
barcode_msg == [text |-> "Cannot import product without barcode", id |-> False]

\* Lines 176-186: product_vals.
product_vals_of(parsed_product, uom_id) ==
    [active |-> get(parsed_product, "active", TRUE),
     default_code |-> parsed_product.code,
     barcode |-> parsed_product.barcode,
     name |-> parsed_product.name,
     description |-> parsed_product.description,
     type |-> "product",
     uom_id |-> uom_id,
     uom_po_id |-> uom_id,
     company_id |-> False]

\* Lines 187-195: seller_info (no "date_start" key: date_start False).
seller_info_of(parsed_product, seller_id, currency_id, product_company_id) ==
    [name |-> seller_id,
     product_code |-> parsed_product.product_code,
     price |-> parsed_product.price,
     currency_id |-> currency_id,
     min_qty |-> parsed_product.min_qty,
     company_id |-> product_company_id,
     delay |-> get(parsed_product, "sale_delay", 0),
     date_start |-> False]

\* _prepare_product: kind "skip" (returns False, message appended), "raise"
\* (a matcher raised) or "vals" (product_vals, with its recordset and commands).
prepare_product(parsed_product, seller_id, product_company_id, prods, offs, today_) ==
    IF missing_barcode(parsed_product)
    THEN [kind |-> "skip"]
    ELSE LET product == search_barcode(prods, parsed_product.barcode)
             uom == match_uom(parsed_product.uom)
             currency == match_currency(parsed_product.currency)
         IN  IF uom.raised \/ currency.raised
             THEN [kind |-> "raise"]
             ELSE [kind |-> "vals",
                   recordset |-> product,
                   product_vals |-> product_vals_of(parsed_product, uom.id),
                   seller_ids |-> prepare_supplierinfo(
                       seller_info_of(parsed_product, seller_id, currency.id,
                                      product_company_id),
                       product, offs, today_)]

\* ----------------------------------------------- _create_update_product

\* A product.supplierinfo record from a create command's values.
new_sinfo(values, product_id) ==
    [product_id |-> product_id,
     name |-> values.name,
     product_code |-> values.product_code,
     price |-> values.price,
     currency_id |-> values.currency_id,
     min_qty |-> values.min_qty,
     company_id |-> values.company_id,
     delay |-> values.delay,
     date_start |-> values.date_start,
     date_end |-> False]

RECURSIVE apply_commands_overwriting(_, _, _)
apply_commands_overwriting(commands, product_id, acc) ==
    IF commands = <<>> \/ acc.raised THEN acc
    ELSE LET c == Head(commands)
             next ==
                 IF c.command = 1
                 THEN [acc EXCEPT !.offs[c.line_id] =
                          [@ EXCEPT !.date_end = c.values.date_end,
                                    !.date_start = False]]
                 ELSE IF c.command = 0
                 THEN [acc EXCEPT !.offs = Append(@, new_sinfo(c.values, product_id))]
                 ELSE [acc EXCEPT !.raised = TRUE]
         IN  apply_commands_overwriting(Tail(commands), product_id, next)

\* Lines 234-240: the commands applied in order; raised on any other command.
RECURSIVE apply_commands(_, _, _)
apply_commands(commands, product_id, acc) ==
    IF commands = <<>> \/ acc.raised THEN acc
    ELSE LET c == Head(commands)
             next ==
                 IF c.command = 1
                 THEN [acc EXCEPT !.offs[c.line_id].date_end = c.values.date_end]
                 ELSE IF c.command = 0
                 THEN [acc EXCEPT !.offs = Append(@, new_sinfo(c.values, product_id))]
                 ELSE [acc EXCEPT !.raised = TRUE]
         IN  apply_commands(Tail(commands), product_id, next)

write_product_master_kept(product, product_vals) ==
    [f \in DOMAIN product |->
        IF f \in DOMAIN product_vals \ {"type", "company_id"}
        THEN product_vals[f] ELSE product[f]]

\* Line 241: product.write(product_vals).
write_product(product, product_vals) ==
    [f \in DOMAIN product |->
        IF f \in DOMAIN product_vals THEN product_vals[f] ELSE product[f]]

\* Lines 244-250: create(product_vals) with "active" popped (a product is
\* created active), then archived when the line says inactive.
created_product(product_vals) ==
    LET created == [product_vals EXCEPT !.active = TRUE]
    IN  IF ~product_vals.active THEN [created EXCEPT !.active = FALSE] ELSE created

\* _create_update_product: the store after it, the id it logs, raised.
create_update_product(vals, prods, offs) ==
    IF vals.recordset # False
    THEN LET done == apply_commands(vals.seller_ids, vals.recordset,
                                    [offs |-> offs, raised |-> FALSE])
         IN  [raised |-> done.raised,
              prods |-> IF done.raised THEN prods
                        ELSE [prods EXCEPT ![vals.recordset] =
                                 write_product(@, vals.product_vals)],
              offs |-> done.offs,
              id |-> vals.recordset]
    ELSE LET id == Len(prods) + 1
             done == apply_commands(vals.seller_ids, id,
                                    [offs |-> offs, raised |-> FALSE])
         IN  [raised |-> done.raised,
              prods |-> Append(prods, created_product(vals.product_vals)),
              offs |-> done.offs,
              id |-> id]

\* Line 253: the log line of a written product.
written_msg(id) == [text |-> "Product created/updated", id |-> id]

\* ------------------------------------------------------ the chunking loop

\* Line 267: one tuple of zip_longest over chunk_size references to one
\* iterator that has consumed pos lines: the next chunk_size lines, the
\* exhausted slots filled with None.
zip_longest_next(lines, pos, chunk_size) ==
    [k \in 1..chunk_size |-> IF pos + k <= Len(lines) THEN lines[pos + k] ELSE None]

\* Line 269: "if product", the truth value of a slot.
truthy(product) == product # None

strip_fill_kept(chunk) == chunk

\* Lines 268-269: the fill is filtered out only when the last slot is None.
strip_fill(chunk) ==
    IF chunk[Len(chunk)] = None THEN SelectSeq(chunk, truthy) ELSE chunk

\* Line 267: zip_longest stops when the shared iterator yields nothing more.
exhausted(lines, pos) == pos >= Len(lines)

\* ------------------------------------------------------------ the inputs

\* Catalogue lines (ParsedProductLine); "sale_delay" and "active" are optional.
LineA ==
    [barcode |-> "b1", code |-> "c1", name |-> "n1", description |-> "d1",
     uom |-> "unit", currency |-> "EUR", price |-> 10, min_qty |-> 1,
     product_code |-> "pc1"]
LineB == [LineA EXCEPT !.price = 12]
LineC ==
    [barcode |-> "b2", code |-> "c2", name |-> "n2", description |-> "d2",
     uom |-> "kg", currency |-> "USD", price |-> 10, min_qty |-> 5,
     product_code |-> "pc2", sale_delay |-> 2, active |-> FALSE]
LineNoBarcode == [LineA EXCEPT !.barcode = ""]
LineBadUom == [LineC EXCEPT !.uom = "??"]

LineSet == {LineA, LineB, LineC, LineNoBarcode, LineBadUom}

\* The sequences over S of length at most n.
SeqUpTo(S, n) == UNION {[1..k -> S] : k \in 0..n}

\* A parsed catalogue (CatalogueDocument): seller and company references
\* ("" : no "company" entry) and the product lines.
Catalogues ==
    {[seller |-> "vendorA", company |-> c, products |-> ps] :
        c \in {"", "acme"},
        ps \in {q \in SeqUpTo(LineSet, MaxLines) :
                   \A m, n \in 1..Len(q) : q[m] = q[n] => m = n}}
    \cup
    {[seller |-> h[1], company |-> h[2], products |-> <<LineA>>] :
        h \in {<<"nobody", "">>, <<"vendorA", "orphan">>, <<"vendorA", "ghost">>}}

NoCatalogue == [seller |-> "", company |-> "", products |-> <<>>]

\* What the wizard holds: product_filename, product_file. The file is
\* XML-compliant or not, and parse_xml_catalogue (the installed format
\* plugins, or the base method) either returns ("ok": the document type when
\* detecting, the catalogue otherwise), returns None, or raises.
Docs ==
    {[filename |-> "cat.xml", data |-> TRUE, xml |-> TRUE, parser |-> "ok",
      catalogue |-> c] : c \in Catalogues}
    \cup
    {[filename |-> "cat.xml", data |-> TRUE, xml |-> TRUE, parser |-> r,
      catalogue |-> NoCatalogue] : r \in {"NotImplementedError", "UserError", "None"}}
    \cup
    {[filename |-> "cat.xml", data |-> TRUE, xml |-> FALSE,
      parser |-> "NotImplementedError", catalogue |-> NoCatalogue],
     [filename |-> "cat.xml", data |-> FALSE, xml |-> FALSE,
      parser |-> "NotImplementedError", catalogue |-> NoCatalogue],
     [filename |-> "", data |-> TRUE, xml |-> TRUE, parser |-> "ok",
      catalogue |-> [seller |-> "vendorA", company |-> "", products |-> <<LineA>>]]}

\* Products and offers found in the store before the first import.
ProductB1 ==
    [active |-> TRUE, default_code |-> "c1", barcode |-> "b1", name |-> "n1",
     description |-> "d1", type |-> "product", uom_id |-> 1, uom_po_id |-> 1,
     company_id |-> False]
\* An archived product, entered by hand as a consumable of company 2.
ProductB1Archived ==
    [ProductB1 EXCEPT !.active = FALSE, !.name = "old", !.type = "consu",
                      !.company_id = 2]

OfferA ==
    [product_id |-> 1, name |-> 1, product_code |-> "pc1", price |-> 10,
     currency_id |-> 1, min_qty |-> 1, company_id |-> False, delay |-> 0,
     date_start |-> 1, date_end |-> False]

InitStores ==
    {[products |-> <<>>, offers |-> <<>>],
     [products |-> <<ProductB1>>, offers |-> <<OfferA>>],
     [products |-> <<ProductB1Archived>>,
      offers |-> <<[OfferA EXCEPT !.name = 2],
                   [OfferA EXCEPT !.company_id = 2, !.price = 12],
                   [OfferA EXCEPT !.price = 12, !.date_end = StartDay - 1],
                   [OfferA EXCEPT !.company_id = 1, !.date_end = StartDay + 1],
                   [OfferA EXCEPT !.min_qty = 5],
                   [OfferA EXCEPT !.delay = 2, !.date_start = StartDay + 1],
                   [OfferA EXCEPT !.date_end = StartDay]>>]}

NoStore == [products |-> <<>>, offers |-> <<>>]

\* ---------------------------------------------------------------- parsing

\* parse_xml_catalogue(xml_root, detect_doc_type) on a document: its result, or
\* the exception it raises. The base method (lines 77-84) always raises
\* NotImplementedError; a format plugin overrides it.
parse_xml_catalogue(d) ==
    IF d.parser \in {"NotImplementedError", "UserError"}
    THEN [raised |-> d.parser, res |-> "None"]
    ELSE [raised |-> "", res |-> IF d.parser = "ok" THEN "catalogue" ELSE "None"]

\* _parse_xml(data): the error message ("" for None).
parse_xml(d) ==
    LET error_msg == IF d.data
                     THEN IF d.xml THEN "" ELSE "This XML file is not XML-compliant"
                     ELSE "No data provided"
    IN  IF error_msg = ""
        THEN IF parse_xml_catalogue(d).raised \in {"UserError", "NotImplementedError"}
             THEN "Unsupported XML document"
             ELSE ""
        ELSE error_msg

\* _parse_file(filename, filecontent, detect_doc_type): what it raises ("" when
\* it returns), with the message, and what it returns.
parse_file(d) ==
    IF d.filename = "" \/ ~d.data
    THEN [raised |-> "AssertionError", msg |-> "Missing", res |-> "None"]
    ELSE IF parse_xml(d) # ""
    THEN [raised |-> "UserError", msg |-> parse_xml(d), res |-> "None"]
    ELSE [raised |-> parse_xml_catalogue(d).raised, msg |-> "",
          res |-> parse_xml_catalogue(d).res]

\* product_file_change: "skipped" (early return), "error" (an exception reaches
\* the user), "warning" (the unsupported-file warning) or "accepted".
product_file_change_result(d) ==
    IF d.filename = "" \/ ~d.data
    THEN [outcome |-> "skipped", msg |-> ""]
    ELSE IF parse_file(d).raised # ""
    THEN [outcome |-> "error", msg |-> parse_file(d).msg]
    ELSE IF parse_file(d).res = "None"
    THEN [outcome |-> "warning", msg |-> "Unsupported file format"]
    ELSE [outcome |-> "accepted", msg |-> ""]

\* parse_product_catalogue: whether it raises (from _parse_file, or on a None
\* catalogue at line 90).
parse_product_catalogue_raises(d) ==
    parse_file(d).raised # "" \/ parse_file(d).res = "None"

get_company_id_of_partner(catalogue) ==
    IF catalogue.company = "" THEN False
    ELSE match_partner(catalogue.company, CompanyPartnerTable, FALSE).id

\* _get_company_id(catalogue): the res.company id, or False.
get_company_id(catalogue) ==
    IF catalogue.company = "" THEN False
    ELSE LET part == match_partner(catalogue.company, CompanyPartnerTable, FALSE)
             company == {c \in ResCompany : c.partner_id = part.id}
         IN  IF part.id = False THEN False
             ELSE IF company = {} THEN False
             ELSE (CHOOSE c \in company : TRUE).id

get_seller_lenient(catalogue) == match_partner(catalogue.seller, PartnerTable, FALSE)

\* _get_seller(catalogue): the partner, or a raise.
get_seller(catalogue) == match_partner(catalogue.seller, PartnerTable, TRUE)

\* ------------------------------------------------------------- the state

VARIABLES
    today,        \* date.today()
    products,     \* the product.product records
    offers,       \* the product.supplierinfo records
    no_delay,     \* context key queue_job__no_delay: with_delay() runs the call at once
    doc,          \* the wizard's product_filename and product_file
    chunk_size,   \* import_button's chunk_size argument
    onchange,     \* what product_file_change did for this wizard ("unset": not run)
    state,        \* where import_button is
    cause,        \* why the run was rejected ("" when it was not)
    run,          \* the number of this import run
    company_id,   \* import_button's company_id
    seller_id,    \* import_button's seller.id
    pos,          \* lines the chunking iterator has consumed
    jobs,         \* the calls submitted through with_delay(), in submission order
    attachments,  \* the runs whose source document post_create_or_update recorded
    saved,        \* the store at the start of the open transaction
    rerun,        \* this run imports again the catalogue of the completed run before
    baseline      \* the store when the repeated run started

vars ==
    <<today, products, offers, no_delay, doc, chunk_size, onchange, state, cause,
      run, company_id, seller_id, pos, jobs, attachments, saved, rerun, baseline>>

store_vars == <<products, offers>>
wizard_vars == <<doc, chunk_size, onchange, run, rerun, baseline>>
import_vars == <<state, cause, company_id, seller_id, pos, attachments>>

store == [products |-> products, offers |-> offers]

running == {j \in 1..Len(jobs) : jobs[j].status = "running"}
unfinished == {j \in 1..Len(jobs) : jobs[j].status \in {"pending", "running"}}

Init ==
    /\ today = StartDay
    /\ \E s \in InitStores : products = s.products /\ offers = s.offers
    /\ no_delay \in BOOLEAN
    /\ doc \in Docs
    /\ chunk_size \in 1..MaxChunk
    /\ onchange = [outcome |-> "unset", msg |-> ""]
    /\ state = "Idle"
    /\ cause = ""
    /\ run = 1
    /\ company_id = False
    /\ seller_id = False
    /\ pos = 0
    /\ jobs = <<>>
    /\ attachments = {}
    /\ saved = NoStore
    /\ rerun = FALSE
    /\ baseline = NoStore

\* --------------------------------------------------------------- actions

\* The onchange of product_file (lines 34-43).
product_file_change ==
    /\ state = "Idle"
    /\ onchange.outcome = "unset"
    /\ onchange' = product_file_change_result(doc)
    /\ UNCHANGED <<today, products, offers, no_delay, doc, chunk_size, state, cause,
                   run, company_id, seller_id, pos, jobs, attachments, saved, rerun,
                   baseline>>

\* import_button is called (lines 256-258); the request's transaction opens
\* and what the onchange showed is gone.
import_button ==
    /\ state = "Idle"
    /\ running = {}
    /\ state' = "Parsing"
    /\ onchange' = [outcome |-> "unset", msg |-> ""]
    /\ saved' = IF no_delay THEN store ELSE saved
    /\ UNCHANGED <<today, store_vars, no_delay, doc, chunk_size, run, rerun, baseline,
                   cause, company_id, seller_id, pos, jobs, attachments>>

\* An exception leaves import_button: the run is rejected.
reject(why) ==
    /\ state' = "Rejected"
    /\ cause' = why

\* Line 259: parse_product_catalogue returns the catalogue or raises.
parse_product_catalogue ==
    /\ state = "Parsing"
    /\ IF parse_product_catalogue_raises(doc)
       THEN reject("parse")
       ELSE state' = "Validated" /\ cause' = cause
    /\ UNCHANGED <<today, store_vars, no_delay, wizard_vars, company_id, seller_id,
                   pos, jobs, attachments, saved>>

\* Lines 260-261: a catalogue without products is refused.
check_products ==
    /\ state = "Validated"
    /\ IF doc.catalogue.products = <<>>
       THEN reject("empty")
       ELSE state' = "Resolving" /\ cause' = cause
    /\ UNCHANGED <<today, store_vars, no_delay, wizard_vars, company_id, seller_id,
                   pos, jobs, attachments, saved>>

\* Lines 262-266: the company and the seller are resolved, the iterators made.
resolve ==
    /\ state = "Resolving"
    /\ IF get_seller(doc.catalogue).raised
       THEN /\ reject("seller")
            /\ UNCHANGED <<company_id, seller_id, pos>>
       ELSE /\ state' = "Scheduled"
            /\ cause' = cause
            /\ company_id' = get_company_id(doc.catalogue)
            /\ seller_id' = get_seller(doc.catalogue).id
            /\ pos' = 0
    /\ UNCHANGED <<today, store_vars, no_delay, wizard_vars, jobs, attachments, saved>>

\* No product_vals: the call is not between _prepare_product and
\* _create_update_product.
NoVals == [kind |-> "none"]

\* The call with_delay()._create_update_products(products, seller.id) records:
\* its arguments and context, the line it is at (i), where it is in that line
\* (at) and the product_vals it holds there.
new_job(chunk) ==
    [run |-> run, products |-> chunk, seller_id |-> seller_id,
     company_id |-> company_id, i |-> 1, log |-> <<>>,
     status |-> IF no_delay THEN "running" ELSE "pending",
     at |-> "lookup", product_vals |-> NoVals]

\* Lines 267-271: one turn of the loop submits the next chunk. With
\* queue_job__no_delay the call runs at once, and the loop goes on when it returns.
submit_chunk ==
    /\ state = "Scheduled"
    /\ ~exhausted(doc.catalogue.products, pos)
    /\ no_delay => running = {}
    /\ jobs' = Append(jobs, new_job(strip_fill(
                   zip_longest_next(doc.catalogue.products, pos, chunk_size))))
    /\ pos' = pos + chunk_size
    /\ UNCHANGED <<today, store_vars, no_delay, wizard_vars, state, cause, company_id,
                   seller_id, attachments, saved>>

post_create_or_update_waits ==
    /\ state = "Scheduled"
    /\ exhausted(doc.catalogue.products, pos)
    /\ unfinished = {}
    /\ state' = "Done"
    /\ attachments' = attachments \cup {run}
    /\ UNCHANGED <<today, store_vars, no_delay, wizard_vars, cause, company_id,
                   seller_id, pos, jobs, saved>>

\* Lines 273-280: the loop is over; the source document is recorded.
post_create_or_update ==
    /\ state = "Scheduled"
    /\ exhausted(doc.catalogue.products, pos)
    /\ no_delay => running = {}
    /\ state' = "Done"
    /\ attachments' = attachments \cup {run}
    /\ UNCHANGED <<today, store_vars, no_delay, wizard_vars, cause, company_id,
                   seller_id, pos, jobs, saved>>

\* The job runner takes a submitted call; chunks run one after another.
start_job(j) ==
    /\ jobs[j].status = "pending"
    /\ running = {}
    /\ jobs' = [jobs EXCEPT ![j].status = "running"]
    /\ saved' = store
    /\ UNCHANGED <<today, store_vars, no_delay, wizard_vars, import_vars>>

\* The status of a call after its line i went through.
after_line(job) == IF job.i >= Len(job.products) THEN "done" ELSE "running"

create_update_products_step_catching(job, prods, offs, today_) ==
    LET vals == prepare_product(job.products[job.i], job.seller_id, job.company_id,
                                prods, offs, today_)
        nextjob == [job EXCEPT !.i = @ + 1, !.status = after_line(job)]
    IN  IF vals.kind = "skip"
        THEN [raised |-> FALSE, prods |-> prods, offs |-> offs,
              job |-> [nextjob EXCEPT !.log = Append(@, barcode_msg)]]
        ELSE IF vals.kind = "raise"
        THEN [raised |-> FALSE, prods |-> prods, offs |-> offs, job |-> nextjob]
        ELSE LET w == create_update_product(vals, prods, offs)
             IN  [raised |-> FALSE, prods |-> w.prods, offs |-> w.offs,
                  job |-> [nextjob EXCEPT !.log = Append(@, written_msg(w.id))]]

\* _create_update_products after one more turn of its loop (lines 212-218) on
\* the given store: the call and the store.
create_update_products_step(job, prods, offs, today_) ==
    LET vals == prepare_product(job.products[job.i], job.seller_id, job.company_id,
                                prods, offs, today_)
        nextjob == [job EXCEPT !.i = @ + 1, !.status = after_line(job)]
    IN  IF vals.kind = "skip"
        THEN [raised |-> FALSE, prods |-> prods, offs |-> offs,
              job |-> [nextjob EXCEPT !.log = Append(@, barcode_msg)]]
        ELSE IF vals.kind = "raise"
        THEN [raised |-> TRUE, prods |-> prods, offs |-> offs, job |-> job]
        ELSE LET w == create_update_product(vals, prods, offs)
             IN  [raised |-> w.raised, prods |-> w.prods, offs |-> w.offs,
                  job |-> [nextjob EXCEPT !.log = Append(@, written_msg(w.id))]]

\* The open transaction is rolled back: the store is again what it was when
\* the transaction started.
rollback ==
    /\ products' = saved.products
    /\ offers' = saved.offers

propagates_always == TRUE

\* Whether an exception of the call reaches import_button: only when
\* with_delay() ran the call inside it (tests/common.py, "Execute directly, no
\* job"); a queued call runs in the job runner, after import_button went on.
propagates == no_delay

\* One line of a running call is processed. An exception ends the call and
\* its transaction is rolled back; under queue_job__no_delay the exception
\* leaves import_button too.
process_line(j) ==
    /\ jobs[j].status = "running"
    /\ LET r == create_update_products_step(jobs[j], products, offers, today)
       IN  IF r.raised
           THEN /\ jobs' = [jobs EXCEPT ![j].status = "failed"]
                /\ rollback
                /\ IF propagates
                   THEN reject("chunk")
                   ELSE UNCHANGED <<state, cause>>
           ELSE /\ jobs' = [jobs EXCEPT ![j] = r.job]
                /\ products' = r.prods
                /\ offers' = r.offs
                /\ UNCHANGED <<state, cause>>
    /\ UNCHANGED <<today, no_delay, wizard_vars, company_id, seller_id, pos,
                   attachments, saved>>

\* Midnight passes.  The day is read only by a call at work (date.today() in
\* _prepare_supplierinfo), so it moves while one is.
advance_day ==
    /\ today < StartDay + MaxAdvance
    /\ running # {}
    /\ today' = today + 1
    /\ UNCHANGED <<store_vars, no_delay, wizard_vars, import_vars, jobs, saved>>

\* The wizard is opened once more on the same file, after the first run is
\* over and every call it submitted has succeeded.
new_wizard ==
    /\ state = "Done"
    /\ unfinished = {}
    /\ ~rerun
    /\ \A j \in 1..Len(jobs) : jobs[j].status = "done"
    /\ rerun' = TRUE
    /\ baseline' = store
    /\ run' = run + 1
    /\ onchange' = [outcome |-> "unset", msg |-> ""]
    /\ state' = "Idle"
    /\ cause' = ""
    /\ company_id' = False
    /\ seller_id' = False
    /\ pos' = 0
    /\ UNCHANGED <<today, store_vars, no_delay, doc, chunk_size, jobs, attachments, saved>>

Next ==
    \/ product_file_change
    \/ import_button
    \/ parse_product_catalogue
    \/ check_products
    \/ resolve
    \/ submit_chunk
    \/ post_create_or_update
    \/ \E j \in 1..Len(jobs) : start_job(j)
    \/ \E j \in 1..Len(jobs) : process_line(j)
    \/ advance_day
    \/ new_wizard

Spec == Init /\ [][Next]_vars

\* ------------------------------------------ the chunking loop on its own

\* Longer catalogues over two distinguishable lines, never executed: what the
\* loop of import_button submits.
ChunkDocs ==
    {[filename |-> "cat.xml", data |-> TRUE, xml |-> TRUE, parser |-> "ok",
      catalogue |-> [seller |-> "vendorA", company |-> "", products |-> ps]] :
        ps \in SeqUpTo({LineA, LineB}, MaxChunkLines)}

InitChunk ==
    /\ today = StartDay
    /\ products = <<>> /\ offers = <<>>
    /\ no_delay = FALSE
    /\ doc \in ChunkDocs
    /\ chunk_size \in 1..(MaxChunk + 1)
    /\ onchange = [outcome |-> "unset", msg |-> ""]
    /\ state = "Idle"
    /\ cause = ""
    /\ run = 1
    /\ company_id = False
    /\ seller_id = False
    /\ pos = 0
    /\ jobs = <<>>
    /\ attachments = {}
    /\ saved = NoStore
    /\ rerun = FALSE
    /\ baseline = NoStore

NextChunk ==
    \/ import_button
    \/ parse_product_catalogue
    \/ check_products
    \/ resolve
    \/ submit_chunk
    \/ post_create_or_update

SpecChunk == InitChunk /\ [][NextChunk]_vars

\* ------------------------------------------- chunks running concurrently

\* The job runner takes the submitted calls in any order and runs them side
\* by side. Within a call the lines go one after another, each through three
\* steps: the barcode search of _prepare_product (lookup), _prepare_supplierinfo
\* on what the product holds by then (reconcile), and _create_update_product
\* (write). The lines of this specification all carry a barcode and resolve,
\* the catalogue is of company "acme", and the day stays.
RaceLines == {LineA, LineB, LineC}

RaceDocs ==
    {[filename |-> "cat.xml", data |-> TRUE, xml |-> TRUE, parser |-> "ok",
      catalogue |-> [seller |-> "vendorA", company |-> c, products |-> ps]] :
        c \in {"acme"}, ps \in SeqUpTo(RaceLines, MaxRaceLines)}

\* The stores the concurrent calls start from: the empty one, and the one
\* with a product holding one offer.
RaceStores == {s \in InitStores : Len(s.offers) <= 1}

InitRace ==
    /\ today = StartDay
    /\ \E s \in RaceStores :
        /\ products = s.products
        /\ offers = s.offers
        /\ baseline = s
    /\ no_delay = FALSE
    /\ doc \in RaceDocs
    /\ chunk_size \in 1..MaxChunk
    /\ onchange = [outcome |-> "unset", msg |-> ""]
    /\ state = "Idle"
    /\ cause = ""
    /\ run = 1
    /\ company_id = False
    /\ seller_id = False
    /\ pos = 0
    /\ jobs = <<>>
    /\ attachments = {}
    /\ saved = NoStore
    /\ rerun = FALSE

\* The job runner takes a submitted call, whatever the other calls are doing.
start_job_concurrently(j) ==
    /\ jobs[j].status = "pending"
    /\ jobs' = [jobs EXCEPT ![j].status = "running"]
    /\ UNCHANGED <<today, store_vars, no_delay, wizard_vars, import_vars, saved>>

\* Lines 161-174 of _prepare_product for the call's current line: a line
\* without barcode is logged and passed over; otherwise the product is searched
\* and the references matched (a raise ends the call).
lookup(j) ==
    /\ jobs[j].status = "running"
    /\ jobs[j].at = "lookup"
    /\ LET job == jobs[j]
           line == job.products[job.i]
       IN  jobs' = [jobs EXCEPT ![j] =
               IF missing_barcode(line)
               THEN [job EXCEPT !.i = @ + 1, !.status = after_line(job),
                                !.log = Append(@, barcode_msg)]
               ELSE IF match_uom(line.uom).raised \/ match_currency(line.currency).raised
               THEN [job EXCEPT !.status = "failed"]
               ELSE [job EXCEPT !.at = "reconcile",
                                !.product_vals =
                                    [kind |-> "found",
                                     recordset |-> search_barcode(products,
                                                                  line.barcode)]]]
    /\ UNCHANGED <<today, store_vars, no_delay, wizard_vars, import_vars, saved>>

\* Lines 176-200 of _prepare_product: product_vals, with the commands
\* _prepare_supplierinfo derives from the offers the product found holds now.
reconcile(j) ==
    /\ jobs[j].status = "running"
    /\ jobs[j].at = "reconcile"
    /\ LET job == jobs[j]
           line == job.products[job.i]
           product == job.product_vals.recordset
       IN  jobs' = [jobs EXCEPT ![j].at = "write",
                                ![j].product_vals =
               [kind |-> "vals",
                recordset |-> product,
                product_vals |-> product_vals_of(line, match_uom(line.uom).id),
                seller_ids |-> prepare_supplierinfo(
                    seller_info_of(line, job.seller_id,
                                   match_currency(line.currency).id,
                                   job.company_id),
                    product, offers, today)]]
    /\ UNCHANGED <<today, store_vars, no_delay, wizard_vars, import_vars, saved>>

\* Lines 216-218: _create_update_product on the product_vals prepared, then the
\* next line.
write(j) ==
    /\ jobs[j].status = "running"
    /\ jobs[j].at = "write"
    /\ LET job == jobs[j]
           w == create_update_product(job.product_vals, products, offers)
       IN  /\ products' = w.prods
           /\ offers' = w.offs
           /\ jobs' = [jobs EXCEPT ![j] =
                  [job EXCEPT !.i = @ + 1, !.status = after_line(job),
                              !.log = Append(@, written_msg(w.id)),
                              !.at = "lookup", !.product_vals = NoVals]]
    /\ UNCHANGED <<today, no_delay, wizard_vars, import_vars, saved>>

NextRace ==
    \/ import_button
    \/ parse_product_catalogue
    \/ check_products
    \/ resolve
    \/ submit_chunk
    \/ post_create_or_update
    \/ \E j \in 1..Len(jobs) : start_job_concurrently(j)
    \/ \E j \in 1..Len(jobs) : lookup(j)
    \/ \E j \in 1..Len(jobs) : reconcile(j)
    \/ \E j \in 1..Len(jobs) : write(j)

SpecRace == InitRace /\ [][NextRace]_vars

\* ----------------------------------------------------------------- claims

\* The chunks this run has submitted, in submission order.
run_chunks ==
    LET mine == SelectSeq(jobs, LAMBDA job : job.run = run)
    IN  [k \in 1..Len(mine) |-> mine[k].products]

RECURSIVE concat(_)
concat(ss) == IF ss = <<>> THEN <<>> ELSE Head(ss) \o concat(Tail(ss))

ceil_div(n, c) == (n + c - 1) \div c

\* C1: the loop of import_button submits ceil(N/C) chunks whose concatenation
\* in submission order is the product list; no chunk is empty, longer than C,
\* or holds a None fill. While the loop runs the chunks submitted so far are
\* the list's first lines.
C1_ChunksPartitionCatalogue ==
    LET lines == doc.catalogue.products
        consumed == IF pos <= Len(lines) THEN pos ELSE Len(lines)
    IN  /\ \A k \in 1..Len(run_chunks) :
            /\ Len(run_chunks[k]) \in 1..chunk_size
            /\ \A n \in 1..Len(run_chunks[k]) :
                   /\ run_chunks[k][n] # None
                   /\ run_chunks[k][n] \in LineSet
        /\ state = "Scheduled" => concat(run_chunks) = SubSeq(lines, 1, consumed)
        /\ state = "Done" =>
            /\ Len(run_chunks) = ceil_div(Len(lines), chunk_size)
            /\ concat(run_chunks) = lines

\* C1 witness: five lines in chunks of two went out as 2, 2 and a trailing 1.
C1_Witness ==
    /\ state = "Done"
    /\ Len(doc.catalogue.products) = 5
    /\ chunk_size = 2
    /\ Len(run_chunks) = 3
    /\ Len(run_chunks[3]) = 1
    /\ run_chunks[3][1] = doc.catalogue.products[5]

\* C2: importing again the catalogue of a completed run creates no offer and
\* no product and changes no field of an existing offer or product.
C2_RerunChangesNothing ==
    rerun => (products = baseline.products /\ offers = baseline.offers)

\* The barcodes of the catalogue's lines are pairwise distinct.
distinct_barcodes ==
    LET lines == doc.catalogue.products
    IN  \A m, n \in 1..Len(lines) : lines[m].barcode = lines[n].barcode => m = n

\* C2 on one day: with no two lines on one barcode, and the repeated run on
\* the day the first one ran, the repeated import changes nothing.
C2_RerunSameDayDistinctBarcodes ==
    (rerun /\ distinct_barcodes /\ today = StartDay) =>
        (products = baseline.products /\ offers = baseline.offers)

\* An offer that is not ended on the given day.
active_on(offer, day) == offer.date_end = False \/ offer.date_end >= day

\* The fields _prepare_supplierinfo compares, with the seller.
offer_key(offer) ==
    <<offer.name, offer.company_id, offer.product_code, offer.min_qty, offer.price,
      offer.currency_id, offer.delay>>

\* C3: chunks running one after another, a product never holds two active
\* offers (date_end unset or not before today) of one seller with the same
\* company, product_code, min_qty, price, currency and delay.
C3_OneActiveOfferPerKey ==
    \A m, n \in 1..Len(offers) :
        (/\ m # n
         /\ offers[m].product_id = offers[n].product_id
         /\ active_on(offers[m], today)
         /\ active_on(offers[n], today)) => offer_key(offers[m]) # offer_key(offers[n])

\* C3 witness: a line identical to the product's active offer went through a
\* completed call and the product still holds that one offer only.
C3_Witness ==
    /\ offers = <<OfferA>>
    /\ \E j \in 1..Len(jobs) :
        /\ jobs[j].status = "done"
        /\ jobs[j].products = <<LineA>>
        /\ jobs[j].company_id = False
        /\ jobs[j].log = <<written_msg(1)>>

\* The step is one in which call j went through its current line.
line_done(j) ==
    /\ jobs[j].status = "running"
    /\ jobs'[j].i = jobs[j].i + 1

\* The candidate offer of the current line of a call, as offer_key orders it.
candidate_key(job) ==
    LET line == job.products[job.i]
    IN  <<job.seller_id, job.company_id, line.product_code, line.min_qty, line.price,
          CurrencyTable[line.currency],
          IF "sale_delay" \in DOMAIN line THEN line.sale_delay ELSE 0>>

\* The offers of a product in the candidate's scope: same seller, company the
\* candidate's or unset, not ended before the day.
in_scope(offs, product_id, job, day) ==
    {o \in 1..Len(offs) :
        /\ offs[o].product_id = product_id
        /\ offs[o].name = job.seller_id
        /\ offs[o].company_id \in {job.company_id, False}
        /\ active_on(offs[o], day)}

\* C4: when a line is reconciled against an existing product, every offer in
\* scope that differs from the candidate gets date_end = today - 1; if no
\* offer in scope is identical exactly one offer is created, for that product,
\* with the candidate's fields, date_start = today and no date_end; otherwise
\* none is created.
C4_Step ==
    \A j \in 1..Len(jobs) :
        (line_done(j) /\ jobs[j].products[jobs[j].i].barcode # "") =>
            LET line == jobs[j].products[jobs[j].i]
                hits == {p \in 1..Len(products) : products[p].barcode = line.barcode}
                scope == UNION {in_scope(offers, p, jobs[j], today) : p \in hits}
                cand == candidate_key(jobs[j])
                differing == {o \in scope : offer_key(offers[o]) # cand}
                identical == {o \in scope : offer_key(offers[o]) = cand}
            IN  hits # {} =>
                    /\ \A o \in differing : offers'[o].date_end = today - 1
                    /\ \A o \in identical : offers'[o] = offers[o]
                    /\ identical # {} => Len(offers') = Len(offers)
                    /\ identical = {} =>
                        /\ Len(offers') = Len(offers) + 1
                        /\ offer_key(offers'[Len(offers')]) = cand
                        /\ offers'[Len(offers')].product_id \in hits
                        /\ offers'[Len(offers')].date_start = today
                        /\ offers'[Len(offers')].date_end = False

C4_TerminateYesterdayCreateToday == [][C4_Step]_vars

\* C4 witness: the product's one active offer at price 10 met a line at price
\* 12: the old offer ended yesterday, one new offer starts today.
C4_Witness ==
    /\ Len(offers) = 2
    /\ offers[1] = [OfferA EXCEPT !.date_end = today - 1]
    /\ offers[2] = [OfferA EXCEPT !.price = 12, !.date_start = today]

\* The latest date any offer carries.
RECURSIVE max_of(_)
max_of(S) ==
    IF S = {} THEN 0
    ELSE LET x == CHOOSE y \in S : TRUE
             m == max_of(S \ {x})
         IN  IF x >= m THEN x ELSE m

last_date(offs) ==
    max_of({offs[o].date_start : o \in 1..Len(offs)}
           \cup {offs[o].date_end : o \in 1..Len(offs)})

\* An offer is valid on a day.
valid_on(offer, day) ==
    /\ offer.date_start = False \/ offer.date_start <= day
    /\ offer.date_end = False \/ offer.date_end >= day

\* C5: right after a line was reconciled and written for a product, no day
\* from today on sees two offers of that product, of the line's seller and
\* with the line's company or none, that differ in a compared field and are
\* both valid.
C5_Step ==
    \A j \in 1..Len(jobs) :
        (line_done(j) /\ jobs[j].products[jobs[j].i].barcode # "") =>
            LET line == jobs[j].products[jobs[j].i]
                hits == {p \in 1..Len(products') : products'[p].barcode = line.barcode}
                mine == {o \in 1..Len(offers') :
                            /\ offers'[o].product_id \in hits
                            /\ offers'[o].name = jobs[j].seller_id
                            /\ offers'[o].company_id \in {jobs[j].company_id, False}}
            IN  \A d \in today..(last_date(offers') + today + 1) :
                    \A m, n \in mine :
                        (valid_on(offers'[m], d) /\ valid_on(offers'[n], d)) =>
                            offer_key(offers'[m]) = offer_key(offers'[n])

C5_NoOverlapOfConflictingOffers == [][C5_Step]_vars

\* C5 witness: an offer valid into the future was superseded: it ends
\* yesterday and its successor, of another price, is valid from today.
C5_Witness ==
    \E m, n \in 1..Len(offers) :
        /\ offers[m].product_id = offers[n].product_id
        /\ offers[m].name = offers[n].name
        /\ offers[m].company_id = 1
        /\ offers[n].company_id = 1
        /\ offers[m].price # offers[n].price
        /\ offers[m].date_start < today - 1
        /\ offers[m].date_end = today - 1
        /\ offers[n].date_start = today
        /\ offers[n].date_end = False

\* C6: a line without barcode changes no product and no offer, adds its
\* message to the call's log, and the call goes on to its next line.
C6_Step ==
    \A j \in 1..Len(jobs) :
        (/\ jobs[j].status = "running"
         /\ jobs[j].products[jobs[j].i].barcode = ""
         /\ jobs'[j] # jobs[j]) =>
            /\ products' = products
            /\ offers' = offers
            /\ jobs'[j].log = Append(jobs[j].log, barcode_msg)
            /\ jobs'[j].i = jobs[j].i + 1
            /\ jobs'[j].status =
                   IF jobs[j].i < Len(jobs[j].products) THEN "running" ELSE "done"
            /\ state' = state

C6_NoBarcodeLineSkippedAndLogged == [][C6_Step]_vars

\* C6 witness: a call whose first line had no barcode logged it and went on to
\* create the product of its second line.
C6_Witness ==
    \E j \in 1..Len(jobs) :
        /\ jobs[j].status = "done"
        /\ jobs[j].products = <<LineNoBarcode, LineA>>
        /\ Len(jobs[j].log) = 2
        /\ jobs[j].log[1] = barcode_msg
        /\ jobs[j].log[2].text = "Product created/updated"
        /\ \E p \in 1..Len(products) : products[p].barcode = "b1"
        /\ \A p \in 1..Len(products) : products[p].barcode # ""

\* C7: a run rejected at parsing, for an empty product list or for its seller
\* has submitted no chunk and recorded no source document; chunks are
\* submitted only once the catalogue was parsed, found non-empty and its
\* seller resolved, and every chunk carries that seller.
C7_RejectedRunSubmitsNothing ==
    /\ (state = "Rejected" /\ cause \in {"parse", "empty", "seller"}) =>
           (run_chunks = <<>> /\ run \notin attachments)
    /\ run \in attachments => state = "Done"
    /\ run_chunks # <<>> =>
        /\ ~parse_product_catalogue_raises(doc)
        /\ doc.catalogue.products # <<>>
        /\ seller_id # False
        /\ \A j \in 1..Len(jobs) : jobs[j].run = run => jobs[j].seller_id = seller_id

\* C7 witness: a run was rejected because its seller did not resolve, after a
\* non-empty catalogue had been parsed.
C7_Witness ==
    /\ state = "Rejected"
    /\ cause = "seller"
    /\ doc.catalogue.products # <<>>
    /\ run_chunks = <<>>

\* C8: once product_file_change has examined a file, an XML-compliant file no
\* parser recognizes gave the "unsupported file" warning and no error, and a
\* file that is not XML-compliant gave an error.
C8_UnsupportedIsWarningOnly ==
    onchange.outcome \notin {"unset", "skipped"} =>
        /\ (doc.xml /\ doc.parser # "ok") => onchange.outcome = "warning"
        /\ ~doc.xml => onchange.outcome = "error"

\* The forward order of the orchestrator's states.
StateOrder ==
    {<<"Idle", "Parsing">>, <<"Parsing", "Validated">>, <<"Validated", "Resolving">>,
     <<"Resolving", "Scheduled">>, <<"Scheduled", "Done">>}

\* C9 as stated: within a run the state only moves one step forward, or to
\* Rejected from Parsing or from Validated.
C9_OriginalStep ==
    (run' = run /\ state' # state) =>
        <<state, state'>> \in
            StateOrder \cup {<<"Parsing", "Rejected">>, <<"Validated", "Rejected">>}

C9_RejectedOnlyFromParsingOrValidated == [][C9_OriginalStep]_vars

\* C9 amended: within a run the state only moves one step forward, or to
\* Rejected: from Parsing (the document does not parse), from Validated (no
\* products), from Resolving (the seller does not resolve), or from Scheduled
\* when a chunk run inside import_button (queue_job__no_delay) raises.
C9_AmendedStep ==
    (run' = run /\ state' # state) =>
        \/ <<state, state'>> \in StateOrder
        \/ /\ state' = "Rejected"
           /\ \/ state = "Parsing" /\ cause' = "parse"
              \/ state = "Validated" /\ cause' = "empty" /\ doc.catalogue.products = <<>>
              \/ state = "Resolving" /\ cause' = "seller"
                    /\ doc.catalogue.seller \notin DOMAIN PartnerTable
              \/ state = "Scheduled" /\ cause' = "chunk" /\ no_delay

C9_StatesInOrder == [][C9_AmendedStep]_vars

\* C9 witness: a run was rejected from Resolving.
C9_Witness ==
    /\ state = "Rejected"
    /\ cause = "seller"
    /\ doc.catalogue.seller = "nobody"

\* A chunk of this run has failed.
chunk_failed == \E j \in 1..Len(jobs) : jobs[j].run = run /\ jobs[j].status = "failed"

\* C10 as stated: once every chunk is submitted import_button can go on to
\* Done whatever the chunks are doing, and a failed chunk never leaves the
\* import rejected.
C10_DoneWhateverTheChunksDo ==
    /\ (state = "Scheduled" /\ exhausted(doc.catalogue.products, pos)) =>
           ENABLED post_create_or_update
    /\ chunk_failed => state # "Rejected"

\* The products a completed call wrote are in the given store.
writes_kept(job, prods) ==
    \A n \in 1..Len(job.products) :
        job.products[n].barcode # "" =>
            \E p \in 1..Len(prods) : prods[p].barcode = job.products[n].barcode

\* C10 amended, for queued chunks (queue_job__no_delay unset): once every
\* chunk is submitted import_button can go on to Done whatever the chunks are
\* doing; a failed chunk never leaves the import rejected; and the step in
\* which a chunk fails changes neither the import's state, nor the recorded
\* documents, nor any other call, nor the products completed calls wrote.
C10_QueuedState ==
    ~no_delay =>
        /\ (state = "Scheduled" /\ exhausted(doc.catalogue.products, pos)) =>
               ENABLED post_create_or_update
        /\ chunk_failed => state # "Rejected"

C10_QueuedStep ==
    \A j \in 1..Len(jobs) :
        (~no_delay /\ jobs[j].status = "running" /\ jobs'[j].status = "failed") =>
            /\ state' = state
            /\ cause' = cause
            /\ attachments' = attachments
            /\ \A k \in 1..Len(jobs) :
                k # j => /\ jobs'[k] = jobs[k]
                         /\ jobs[k].status = "done" => writes_kept(jobs[k], products')

C10_QueuedChunksAreIsolated == []C10_QueuedState /\ [][C10_QueuedStep]_vars

\* C10 witness: with queued chunks the import is Done while one of its chunks
\* has failed and the product its sibling chunk wrote is in the store.
C10_Witness ==
    /\ ~no_delay
    /\ state = "Done"
    /\ \E j, k \in 1..Len(jobs) :
        /\ jobs[j].run = run /\ jobs[j].status = "failed"
        /\ jobs[k].run = run /\ jobs[k].status = "done"
        /\ jobs[k].products = <<LineA>>
        /\ writes_kept(jobs[k], products)

\* The candidate offer of a line of a call, as offer_key orders it.
line_key(job, line) ==
    <<job.seller_id, job.company_id, line.product_code, line.min_qty, line.price,
      CurrencyTable[line.currency],
      IF "sale_delay" \in DOMAIN line THEN line.sale_delay ELSE 0>>

\* What the call wrote for its first n lines is in the given store: each line
\* with a barcode has its product, and that product an offer with the line's
\* fields.
chunk_written(job, n, prods, offs) ==
    \A m \in 1..n :
        job.products[m].barcode # "" =>
            \E p \in 1..Len(prods) :
                /\ prods[p].barcode = job.products[m].barcode
                /\ \E o \in 1..Len(offs) :
                    /\ offs[o].product_id = p
                    /\ offer_key(offs[o]) = line_key(job, job.products[m])

\* Every call that went through all its lines has all its writes in the
\* store, and a call at work the writes of the lines it went through.
C11_State ==
    \A j \in 1..Len(jobs) :
        /\ jobs[j].status = "done" =>
               chunk_written(jobs[j], Len(jobs[j].products), products, offers)
        /\ jobs[j].status = "running" =>
               chunk_written(jobs[j], jobs[j].i - 1, products, offers)

\* The step in which a call fails leaves the store as it was when the call
\* began (saved, taken when the call begins and kept while it is at work), and
\* touches no other call.
C11_Step ==
    \A j \in 1..Len(jobs) :
        /\ (jobs[j].status = "pending" /\ jobs'[j].status = "running") =>
               saved' = store
        /\ (jobs[j].status = "running" /\ jobs'[j].status # "failed") =>
               saved' = saved
        /\ (jobs[j].status = "running" /\ jobs'[j].status = "failed") =>
               /\ products' = saved.products
               /\ offers' = saved.offers
               /\ \A k \in 1..Len(jobs) : k # j => jobs'[k] = jobs[k]

\* C11 as stated: a chunk one of whose lines fails leaves none of its writes
\* in the store, and every other executed chunk has all its writes in the store.
C11_ChunkAtomic == []C11_State /\ [][C11_Step]_vars

C11_QueuedState == ~no_delay => C11_State

C11_QueuedStep == ~no_delay => C11_Step

\* C11 amended, for queued chunks (queue_job__no_delay unset): a chunk one of
\* whose lines fails leaves the store as it was when the chunk began, and a
\* chunk that went through all its lines has all its writes in the store,
\* whatever happens to the chunks after it.
C11_QueuedChunkAtomic == []C11_QueuedState /\ [][C11_QueuedStep]_vars

\* C11 witness: a queued chunk created the product of its first line, failed
\* on its second (unknown unit of measure) and the store is empty again.
C11_Witness ==
    /\ ~no_delay
    /\ products = <<>>
    /\ offers = <<>>
    /\ \E j \in 1..Len(jobs) :
        /\ jobs[j].status = "failed"
        /\ jobs[j].products = <<LineA, LineBadUom>>
        /\ jobs[j].log = <<written_msg(1)>>

\* No two products carry one barcode.
C12_State ==
    \A m, n \in 1..Len(products) :
        products[m].barcode = products[n].barcode => m = n

\* A line whose barcode a product carries, archived or not and whatever its
\* name and code, is written onto that product and creates none; a line whose
\* barcode no product carries creates one product, with that barcode.
C12_Step ==
    \A j \in 1..Len(jobs) :
        (line_done(j) /\ jobs[j].products[jobs[j].i].barcode # "") =>
            LET line == jobs[j].products[jobs[j].i]
                hits == {p \in 1..Len(products) : products[p].barcode = line.barcode}
            IN  /\ hits # {} =>
                    /\ Len(products') = Len(products)
                    /\ \A p \in 1..Len(products) :
                        products'[p] =
                            IF p \in hits
                            THEN write_product(products[p],
                                     product_vals_of(line, UomTable[line.uom]))
                            ELSE products[p]
                    /\ jobs'[j].log[Len(jobs'[j].log)].id \in hits
                /\ hits = {} =>
                    /\ Len(products') = Len(products) + 1
                    /\ SubSeq(products', 1, Len(products)) = products
                    /\ products'[Len(products')].barcode = line.barcode

\* C12: chunks running one after another, the store holds at most one product
\* per barcode: a line whose barcode an existing product carries, an archived
\* one included, is written onto that product and creates no second one; the
\* product is looked up by its barcode only.
C12_OneProductPerBarcode == []C12_State /\ [][C12_Step]_vars

\* C12 witness: a line met the archived product of its barcode, which carried
\* another name: the line was written onto it and it is the only product.
C12_Witness ==
    /\ products = <<ProductB1>>
    /\ Len(offers) >= 7
    /\ \E j \in 1..Len(jobs) :
        /\ jobs[j].status = "done"
        /\ jobs[j].products[1].barcode = "b1"
        /\ jobs[j].log[1] = written_msg(1)

\* C13: the product a line was written to, created or updated, has its
\* company unset and type "product" whatever company the import resolved, and
\* every offer the line created carries that resolved company.
C13_Step ==
    \A j \in 1..Len(jobs) :
        (line_done(j) /\ jobs[j].products[jobs[j].i].barcode # "") =>
            LET id == jobs'[j].log[Len(jobs'[j].log)].id
            IN  /\ id \in 1..Len(products')
                /\ products'[id].barcode = jobs[j].products[jobs[j].i].barcode
                /\ products'[id].company_id = False
                /\ products'[id].type = "product"
                /\ \A o \in (Len(offers) + 1)..Len(offers') :
                    /\ offers'[o].product_id = id
                    /\ offers'[o].company_id = jobs[j].company_id
                /\ jobs[j].run = run =>
                       jobs[j].company_id = get_company_id(doc.catalogue)

C13_ProductCompanyUnset == [][C13_Step]_vars

\* C13 witness: an import for company 1 updated a product that had been a
\* consumable of company 2: the product has no company and type "product",
\* and the offer the import created is of company 1.
C13_Witness ==
    /\ Len(products) = 1
    /\ products[1].company_id = False
    /\ products[1].type = "product"
    /\ Len(offers) = 8
    /\ offers[1].name = 2
    /\ offers[8].company_id = 1
    /\ \E j \in 1..Len(jobs) : jobs[j].status = "done" /\ jobs[j].company_id = 1

\* The catalogue names no company, or one that matches no partner, or one
\* whose partner has no company record.
company_unresolved(catalogue) ==
    \/ catalogue.company = ""
    \/ catalogue.company \notin DOMAIN CompanyPartnerTable
    \/ \A c \in ResCompany : c.partner_id # CompanyPartnerTable[catalogue.company]

\* Past resolution, an import whose company did not resolve has its company
\* unset, and so has every chunk it submitted.
C14_State ==
    (state \in {"Scheduled", "Done"} /\ company_unresolved(doc.catalogue)) =>
        /\ company_id = False
        /\ \A j \in 1..Len(jobs) : jobs[j].run = run => jobs[j].company_id = False

\* Resolution rejects an import for its seller only, and goes on to scheduling
\* otherwise; the offers created by a chunk of an import whose company did not
\* resolve carry no company.
C14_Step ==
    /\ state = "Resolving" =>
        /\ state' = "Rejected" => doc.catalogue.seller \notin DOMAIN PartnerTable
        /\ (state' # state /\ doc.catalogue.seller \in DOMAIN PartnerTable) =>
               state' = "Scheduled"
    /\ \A j \in 1..Len(jobs) :
        (line_done(j) /\ jobs[j].run = run /\ company_unresolved(doc.catalogue)) =>
            \A o \in (Len(offers) + 1)..Len(offers') : offers'[o].company_id = False

\* C14: company resolution never rejects an import: with no company in the
\* catalogue, or a reference matching no partner, or a partner without company
\* record, the import goes on to scheduling with its company unset and every
\* offer it creates has an unset company.
C14_CompanyNeverRejects == []C14_State /\ [][C14_Step]_vars

\* C14 witness: an import naming a company partner that has no company record
\* is Done and the offer its chunk created has no company.
C14_Witness ==
    /\ doc.catalogue.company = "orphan"
    /\ state = "Done"
    /\ Len(offers) = 1
    /\ offers[1].company_id = False
    /\ offers[1].date_start >= StartDay
    /\ \E j \in 1..Len(jobs) : jobs[j].run = run /\ jobs[j].status = "done"

\* C15: writing a line for a product leaves unchanged every existing offer
\* that is of another product, or of another seller than the line's, or of a
\* company that is set and is not the line's, or ended before today; on every
\* other existing offer it changes nothing but date_end.
C15_Step ==
    \A j \in 1..Len(jobs) :
        (line_done(j) /\ jobs[j].products[jobs[j].i].barcode # "") =>
            LET line == jobs[j].products[jobs[j].i]
                hits == {p \in 1..Len(products) : products[p].barcode = line.barcode}
            IN  /\ Len(offers') >= Len(offers)
                /\ \A o \in 1..Len(offers) :
                    /\ (\/ offers[o].product_id \notin hits
                        \/ offers[o].name # jobs[j].seller_id
                        \/ (/\ offers[o].company_id # False
                            /\ offers[o].company_id # jobs[j].company_id)
                        \/ (offers[o].date_end # False /\ offers[o].date_end < today))
                           => offers'[o] = offers[o]
                    /\ offers'[o] = [offers[o] EXCEPT !.date_end = offers'[o].date_end]

C15_ReconcileFrame == [][C15_Step]_vars

\* C15 witness: a line of seller 1 and company 1 at price 12 met a product
\* holding an offer of seller 2, one of company 2 and one ended yesterday:
\* the three are as they were, while a differing offer in scope now ends
\* yesterday with no other field changed.
C15_Witness ==
    /\ Len(offers) = 8
    /\ today = StartDay
    /\ offers[1] = [OfferA EXCEPT !.name = 2]
    /\ offers[2] = [OfferA EXCEPT !.company_id = 2, !.price = 12]
    /\ offers[3] = [OfferA EXCEPT !.price = 12, !.date_end = StartDay - 1]
    /\ offers[5] = [OfferA EXCEPT !.min_qty = 5, !.date_end = StartDay - 1]
    /\ offers[8].price = 12
    /\ offers[8].company_id = 1

\* Every chunk is submitted and every call has ended.
all_done ==
    /\ state = "Done"
    /\ \A j \in 1..Len(jobs) : jobs[j].status = "done"

\* A call as it was submitted.
resubmitted(job) ==
    [job EXCEPT !.i = 1, !.log = <<>>, !.status = "running"]

\* _create_update_products run from the call's current line to its end on
\* the given store, nothing else running: the store after it.
RECURSIVE run_call(_, _, _)
run_call(job, st, today_) ==
    IF job.i > Len(job.products) THEN st
    ELSE LET r == create_update_products_step(job, st.products, st.offers, today_)
         IN  IF r.raised THEN st
             ELSE run_call(r.job, [products |-> r.prods, offers |-> r.offs], today_)

\* The calls run one after another in the given order, from the given store.
RECURSIVE run_sequential(_, _, _, _)
run_sequential(order, calls, st, today_) ==
    IF order = <<>> THEN st
    ELSE run_sequential(Tail(order), calls,
                        run_call(resubmitted(calls[Head(order)]), st, today_), today_)

\* An offer without the id of its product.
offer_fields(offer) ==
    [f \in DOMAIN offer \ {"product_id"} |-> offer[f]]

\* A store without its record ids: how many products and offers it holds and,
\* for each product, its fields and the offers it holds.
canon(st) ==
    [n_products |-> Len(st.products),
     n_offers |-> Len(st.offers),
     products |->
        {LET mine == {o \in 1..Len(st.offers) : st.offers[o].product_id = p}
         IN  [product |-> st.products[p],
              n_offers |-> Cardinality(mine),
              offers |-> {offer_fields(st.offers[o]) : o \in mine}] :
            p \in 1..Len(st.products)}]

\* The barcodes of a chunk.
barcodes_of(chunk) == {chunk[n].barcode : n \in 1..Len(chunk)} \ {""}

\* No barcode is in two chunks.
disjoint_chunks ==
    \A j, k \in 1..Len(jobs) :
        j # k => barcodes_of(jobs[j].products) \cap barcodes_of(jobs[k].products) = {}

\* C16: when the chunks of an import hold pairwise disjoint sets of barcodes,
\* every interleaving of the lookup, reconcile and write steps of their lines
\* ends in the store that running the chunks one after another in submission
\* order ends in (the same products, each with the same offers; record ids
\* follow the order of creation and are left out of the comparison).
C16_DisjointChunksConfluent ==
    (all_done /\ disjoint_chunks) =>
        canon(store) = canon(run_sequential([k \in 1..Len(jobs) |-> k], jobs,
                                            baseline, today))

\* C16 witness: a chunk of two lines on barcode b1 and a chunk on barcode b2
\* have both ended, and the product of the second chunk was created before
\* the one of the first: the second chunk overtook the first.
C16_Witness ==
    /\ all_done
    /\ Len(jobs) = 2
    /\ jobs[1].products = <<LineA, LineB>>
    /\ jobs[2].products = <<LineC>>
    /\ Len(products) = 2
    /\ products[1].barcode = "b2"
    /\ products[2].barcode = "b1"

\* The orders in which n calls can run one after another.
Perms(n) == {f \in [1..n -> 1..n] : \A a, b \in 1..n : f[a] = f[b] => a = b}

\* The stores the calls end in when they run one after another, in any order.
sequential_results ==
    {canon(run_sequential(f, jobs, baseline, today)) : f \in Perms(Len(jobs))}

\* Two products carry one barcode, or a product holds two active offers of
\* one seller with the same compared fields.
duplicated ==
    \/ \E m, n \in 1..Len(products) :
        m # n /\ products[m].barcode = products[n].barcode
    \/ \E m, n \in 1..Len(offers) :
        /\ m # n
        /\ offers[m].product_id = offers[n].product_id
        /\ active_on(offers[m], today)
        /\ active_on(offers[n], today)
        /\ offer_key(offers[m]) = offer_key(offers[n])

\* The create commands among the commands prepared.
creates(commands) == SelectSeq(commands, LAMBDA c : c.command = 0)

\* The store after concurrent calls holds a duplicate only if it is one no
\* order of the calls run one after another ends in.
C17_State == (all_done /\ duplicated) => canon(store) \notin sequential_results

\* A write applies what its call prepared from the store as it was at lookup
\* and reconcile, whatever was written since: a call that found no product
\* creates one even if the barcode has a product by now, and every create
\* command prepared adds an offer.
C17_Step ==
    \A j \in 1..Len(jobs) :
        (jobs[j].status = "running" /\ jobs[j].at = "write" /\ jobs'[j] # jobs[j]) =>
            /\ jobs[j].product_vals.recordset = False =>
                /\ Len(products') = Len(products) + 1
                /\ products'[Len(products')].barcode =
                       jobs[j].products[jobs[j].i].barcode
            /\ Len(offers') = Len(offers) + Len(creates(jobs[j].product_vals.seller_ids))

extends(before, after) ==
    /\ Len(after) >= Len(before)
    /\ \A o \in 1..Len(before) :
        /\ after[o] = [before[o] EXCEPT !.date_end = after[o].date_end]
        /\ after[o].date_end # before[o].date_end => after[o].date_end # False

\* A transaction is open: a call is at work, or import_button is, running its
\* calls itself.
transaction_open ==
    running # {} \/ (no_delay /\ state \in {"Parsing", "Validated", "Resolving", "Scheduled"})

\* The store holds every offer it held when the open transaction began.
C18_State == transaction_open => extends(saved.offers, offers)

\* A step in which no call fails keeps every offer; the step in which a call
\* fails gives up its transaction and leaves the offers as they were when the
\* transaction began.
C18_Step ==
    IF \E j \in 1..Len(jobs) : jobs[j].status = "running" /\ jobs'[j].status = "failed"
    THEN offers' = saved.offers
    ELSE extends(offers, offers')

\* C18: no import deletes an offer: through any sequence of chunk executions
\* the offers of each product only grow in number, and an offer that exists
\* is changed in nothing but its date_end, which is set; a chunk that fails
\* leaves the offers that existed before it as they were.
C18_NoOfferDeleted == []C18_State /\ [][C18_Step]_vars

\* C18 witness: an import without company met a product with seven offers:
\* all seven are still there, the one that was to end today ends yesterday,
\* the one of company 1 is as it was, and an eighth was added.
C18_Witness ==
    /\ Len(offers) = 8
    /\ today = StartDay
    /\ offers[4] = [OfferA EXCEPT !.company_id = 1, !.date_end = StartDay + 1]
    /\ offers[7] = [OfferA EXCEPT !.date_end = StartDay - 1]
    /\ offers[8].company_id = False
    /\ offers[8].date_end = False

\* C19: every offer that has both date_start and date_end set has
\* date_start <= date_end, an offer created today and superseded on the same
\* day included.
C19_WindowWellFormed ==
    \A o \in 1..Len(offers) :
        (offers[o].date_start # False /\ offers[o].date_end # False) =>
            offers[o].date_start <= offers[o].date_end

====
